---- MODULE Spec2Model ----
(***************************************************************************)
(* Model of the cache cleanup engine of src/media/cleanup.ts: the          *)
(* recursive directory scanner (getAllFiles), the TTL pass and the LRU     *)
(* pass of runCleanup, the per-file deletion (safeDelete) and the          *)
(* empty-directory sweep (cleanEmptyDirs).                                 *)
(*                                                                         *)
(* The filesystem is a chain of directories root/d1/d2 holding NumFiles    *)
(* regular files; a file is named by its number and lives in DirOf(f).     *)
(* Every await of runCleanup that touches the filesystem is one action,    *)
(* so other actors (a clock, a process removing files) interleave between  *)
(* the individual file operations of a run.                                *)
(***************************************************************************)
EXTENDS Integers, Sequences, FiniteSets, TLC

\* ---- bounds of the model -------------------------------------------------
NumFiles == 2        \* files that may exist under the cache root
MaxSize == 1         \* file sizes range over 0..MaxSize
MaxTime == 2         \* access and modification times range over 1..MaxTime
MaxTicks == 1        \* clock ticks after the initial instant
MaxLimit == 2        \* config.maxSizeBytes ranges over 0..MaxLimit
MaxTtl == 1          \* config.ttlMs ranges over 0..MaxTtl
MaxOther == 1        \* files another process may remove during a run
MaxScanFaults == 1   \* failing readdir/stat calls in all scans together
MaxCreated == 1      \* files a concurrent writer adds during a run

\* ---- the filesystem layout -----------------------------------------------
Runs == {"first", "second"}
FileIds == 1..NumFiles
Dirs == {"root", "d1", "d2"}

\* join(dir, ".."): the parent of a directory; the parent of the cache root
\* lies outside the cache.
Parent(dir) ==
  CASE dir = "d2" -> "d1"
    [] dir = "d1" -> "root"
    [] OTHER -> "outside"

\* the sub-directories listed by readdir(dir)
SubDirs(dir, fsDirs) == {d \in fsDirs : Parent(d) = dir}

\* join(dir, entry.name): the directory a file path lies in
DirOf(f) ==
  CASE f % 3 = 1 -> "d2"
    [] f % 3 = 2 -> "root"
    [] OTHER -> "d1"

\* the regular files listed by readdir(dir)
FilesIn(dir, fsFiles) == {f \in fsFiles : DirOf(f) = dir}

\* stat results: size, atimeMs, mtimeMs
StatValues == [size : 0..MaxSize, accessTime : 1..MaxTime, modTime : 1..MaxTime]
NoStat == [size |-> 0, accessTime |-> 1, modTime |-> 1]

\* readdir returns the entries of a directory in an order the filesystem
\* chooses
ListingOrders == {"filesFirst", "dirsFirst"}

VARIABLES
  dirs,            \* directories that exist (the cache root is "root")
  onDisk,          \* regular files that exist
  meta,            \* what stat reports for a file
  clock,           \* Date.now()
  otherRemoved,    \* files removed by another process so far
  config,          \* CleanupConfig: maxSizeBytes, ttlMs
  pc,              \* position of each runCleanup call
  files,           \* const files = await getAllFiles(...)
  now,             \* const now = Date.now()
  idx,             \* position of the for..of loop in progress
  remainingFiles,  \* remainingFiles
  currentSize,     \* currentSize
  result,          \* result: CleanupResult
  attempts,        \* history: the safeDelete calls of each run, in order
  scanned,         \* history: what the scan of each run met
  stats,           \* the last value returned by getCacheStats
  created          \* history: files a concurrent writer created

vars == <<dirs, onDisk, meta, clock, otherRemoved, config, pc, files, now, idx,
          remainingFiles, currentSize, result, attempts, scanned, stats,
          created>>

\* ---- helpers --------------------------------------------------------------
RECURSIVE SetToSeq(_)
\* the members of a set of file numbers in ascending order
SetToSeq(S) ==
  IF S = {} THEN <<>>
  ELSE LET m == CHOOSE x \in S : \A y \in S : x <= y
       IN <<m>> \o SetToSeq(S \ {m})

\* a total that leaves out the first file
SumSizeButFirst(seq) ==
  IF seq = <<>> THEN 0
  ELSE LET rest == Tail(seq)
       IN IF rest = <<>> THEN 0
          ELSE LET Sum[k \in 0..Len(rest)] ==
                     IF k = 0 THEN 0 ELSE Sum[k - 1] + rest[k].size
               IN Sum[Len(rest)]

RECURSIVE SumSize(_)
\* remainingFiles.reduce((sum, f) => sum + f.size, 0)
SumSize(seq) ==
  IF seq = <<>> THEN 0 ELSE Head(seq).size + SumSize(Tail(seq))


\* the CachedFile pushed for a file whose stat succeeded
CachedFile(f, st) ==
  [path |-> f, size |-> st[f].size, accessTime |-> st[f].accessTime,
   modTime |-> st[f].modTime]

RECURSIVE StatAll(_, _, _)
\* the isFile() branch of the scan loop: stat each file, skip the failures
StatAll(fseq, st, badStat) ==
  IF fseq = <<>> THEN <<>>
  ELSE (IF Head(fseq) \in badStat THEN <<>> ELSE <<CachedFile(Head(fseq), st)>>)
       \o StatAll(Tail(fseq), st, badStat)

RECURSIVE getAllFiles(_, _, _, _, _, _, _)
\* a scan in which the readdir failure of a sub-directory is not handled in
\* the recursive call but empties the listing of the directory above it too
getAllFilesOneCatch(dir, fsDirs, fsFiles, st, badDirs, badStat, order) ==
  IF dir \notin fsDirs \/ dir \in badDirs THEN <<>>
  ELSE IF \E d \in SubDirs(dir, fsDirs) : d \in badDirs THEN <<>>
  ELSE LET own == StatAll(SetToSeq(FilesIn(dir, fsFiles)), st, badStat)
           subs == SubDirs(dir, fsDirs)
           sub == IF subs = {} THEN <<>>
                  ELSE getAllFiles(CHOOSE d \in subs : TRUE, fsDirs, fsFiles, st,
                                   badDirs, badStat, order)
       IN IF order = "filesFirst" THEN own \o sub ELSE sub \o own

\* a scan that goes on with the entries of a directory whose readdir failed
getAllFilesReadAnyway(dir, fsDirs, fsFiles, st, badDirs, badStat, order) ==
  IF dir \notin fsDirs THEN <<>>
  ELSE LET own == StatAll(SetToSeq(FilesIn(dir, fsFiles)), st, badStat)
           subs == SubDirs(dir, fsDirs)
           sub == IF subs = {} THEN <<>>
                  ELSE getAllFiles(CHOOSE d \in subs : TRUE, fsDirs, fsFiles, st,
                                   badDirs, badStat, order)
       IN IF order = "filesFirst" THEN own \o sub ELSE sub \o own

\* getAllFiles(dir): the inventory of dir, empty when readdir(dir) fails
getAllFiles(dir, fsDirs, fsFiles, st, badDirs, badStat, order) ==
  IF dir \notin fsDirs \/ dir \in badDirs THEN <<>>
  ELSE LET own == StatAll(SetToSeq(FilesIn(dir, fsFiles)), st, badStat)
           subs == SubDirs(dir, fsDirs)
           sub == IF subs = {} THEN <<>>
                  ELSE getAllFiles(CHOOSE d \in subs : TRUE, fsDirs, fsFiles, st,
                                   badDirs, badStat, order)
       IN IF order = "filesFirst" THEN own \o sub ELSE sub \o own

RECURSIVE InsertByAccessTime(_, _)
\* place a file after every file that does not compare greater
InsertByAccessTime(seq, file) ==
  IF seq = <<>> THEN <<file>>
  ELSE IF Head(seq).accessTime - file.accessTime <= 0
       THEN <<Head(seq)>> \o InsertByAccessTime(Tail(seq), file)
       ELSE <<file>> \o seq

\* a sort that leaves the scan order
SortNothing(seq) == seq

RECURSIVE SortByAccessTime(_)
\* remainingFiles.sort((a, b) => a.accessTime - b.accessTime), a stable sort
SortByAccessTime(seq) ==
  IF seq = <<>> THEN <<>>
  ELSE InsertByAccessTime(SortByAccessTime(SubSeq(seq, 1, Len(seq) - 1)),
                          seq[Len(seq)])

RECURSIVE cleanEmptyDirs(_, _, _, _)
\* a sweep without the test that stops at the cache root
cleanEmptyDirsAnyDir(dir, rootDir, fsDirs, fsFiles) ==
  IF dir \notin fsDirs THEN fsDirs
  ELSE IF FilesIn(dir, fsFiles) = {} /\ SubDirs(dir, fsDirs) = {}
       THEN cleanEmptyDirs(Parent(dir), rootDir, fsDirs \ {dir}, fsFiles)
       ELSE fsDirs

\* cleanEmptyDirs(dir, rootDir): the directories left after the sweep that
\* starts at dir. A directory that does not exist makes readdir throw, which
\* ends the sweep; directories outside the cache are not tracked.
cleanEmptyDirs(dir, rootDir, fsDirs, fsFiles) ==
  IF dir = rootDir THEN fsDirs
  ELSE IF dir \notin fsDirs THEN fsDirs
  ELSE IF FilesIn(dir, fsFiles) = {} /\ SubDirs(dir, fsDirs) = {}
       THEN cleanEmptyDirs(Parent(dir), rootDir, fsDirs \ {dir}, fsFiles)
       ELSE fsDirs

\* const result: CleanupResult = { ... }
EmptyResult ==
  [filesDeleted |-> 0, bytesFreed |-> 0, expiredFiles |-> <<>>,
   lruFiles |-> <<>>, errors |-> <<>>]

\* a deletion that reports success for a file that is already gone
safeDeleteForce(f) == IF f \in onDisk THEN {TRUE, FALSE} ELSE {TRUE}

\* unlink(filePath) inside safeDelete: a missing file always fails, an
\* existing one is removed or fails (permission, busy, I/O error)
safeDelete(f) == IF f \in onDisk THEN {TRUE, FALSE} ELSE {FALSE}

\* the error unlink raises when it fails on a path
UnlinkError(f) == IF f \in onDisk THEN "EACCES" ELSE "ENOENT"

\* a handler that swallows only the error of a file that is already gone
CatchesOnlyMissing(err) == err = "ENOENT"

\* lines 116-118: the catch of safeDelete has no filter, it takes every error
CatchesUnlink(err) == TRUE

\* lines 94-96, 99-101: the catch around stat and the catch around readdir
\* take every error of the call they guard
CatchesScan(call) == call \in {"stat", "readdir"}

\* history of a scan: the filesystem and the clock it met, and the readdir
\* and stat calls that failed in it
NotScanned == [dirs |-> {}, onDisk |-> {}, badDirs |-> {}, badStat |-> {}, clock |-> 0]

\* the readdir and stat calls that failed so far
ScanFaults ==
  Cardinality(scanned["first"].badDirs) + Cardinality(scanned["first"].badStat)
  + Cardinality(scanned["second"].badDirs) + Cardinality(scanned["second"].badStat)

\* a TTL test that also expires a file whose age equals the TTL
ExpiredAtTtl(file, nowMs) == nowMs - file.modTime >= config.ttlMs

\* lines 188-190: const age = now - file.modTime; if (age > config.ttlMs)
Expired(file, nowMs) == nowMs - file.modTime > config.ttlMs

\* a TTL pass that drops its failures
RecordExpiredSilent(res, file, deleted) ==
  IF deleted
  THEN [res EXCEPT !.filesDeleted = @ + 1,
                   !.bytesFreed = @ + file.size,
                   !.expiredFiles = Append(@, file.path)]
  ELSE res

\* a TTL pass that counts a deleted file but not its bytes
RecordExpiredNoBytes(res, file, deleted) ==
  IF deleted
  THEN [res EXCEPT !.filesDeleted = @ + 1,
                   !.expiredFiles = Append(@, file.path)]
  ELSE [res EXCEPT !.errors = Append(@, [phase |-> "expired", path |-> file.path])]

\* lines 193-199: the report after a deletion attempt of the TTL pass
RecordExpired(res, file, deleted) ==
  IF deleted
  THEN [res EXCEPT !.filesDeleted = @ + 1,
                   !.bytesFreed = @ + file.size,
                   !.expiredFiles = Append(@, file.path)]
  ELSE [res EXCEPT !.errors = Append(@, [phase |-> "expired", path |-> file.path])]

\* an LRU pass that files its failures under the TTL pass
RecordLruAsExpired(res, file, deleted) ==
  IF deleted
  THEN [res EXCEPT !.filesDeleted = @ + 1,
                   !.bytesFreed = @ + file.size,
                   !.lruFiles = Append(@, file.path)]
  ELSE [res EXCEPT !.errors = Append(@, [phase |-> "expired", path |-> file.path])]

\* lines 219-226: the report after a deletion attempt of the LRU pass
RecordLru(res, file, deleted) ==
  IF deleted
  THEN [res EXCEPT !.filesDeleted = @ + 1,
                   !.bytesFreed = @ + file.size,
                   !.lruFiles = Append(@, file.path)]
  ELSE [res EXCEPT !.errors = Append(@, [phase |-> "LRU", path |-> file.path])]

\* a running total that is decremented for failed deletions too
DecrementAlways(size, file, deleted) == size - file.size

\* a running total that is decremented twice for a deletion
DecrementTwice(size, file, deleted) ==
  IF deleted THEN size - 2 * file.size ELSE size

\* lines 219, 223: currentSize -= file.size, on a successful deletion only
Decrement(size, file, deleted) == IF deleted THEN size - file.size ELSE size

\* a size test that also fires when the total equals the limit
OverLimitOrEqual(size) == size >= config.maxSizeBytes

\* lines 208, 214: is the running total over config.maxSizeBytes
OverLimit(size) == size > config.maxSizeBytes

\* getCacheStats has not been called
NoStats == [called |-> FALSE]

\* ---- initial states -------------------------------------------------------
Init ==
  /\ dirs \in {{}, {"root"}, {"root", "d1"}, Dirs}
  /\ onDisk \in SUBSET {f \in FileIds : DirOf(f) \in dirs}
  /\ meta \in [FileIds -> StatValues]
  /\ \A f \in FileIds \ onDisk : meta[f] = NoStat
  /\ clock = MaxTime
  /\ otherRemoved = {}
  /\ config \in [maxSizeBytes : 0..MaxLimit, ttlMs : 0..MaxTtl]
  /\ pc = [r \in Runs |-> "idle"]
  /\ files = [r \in Runs |-> <<>>]
  /\ now = [r \in Runs |-> 0]
  /\ idx = [r \in Runs |-> 0]
  /\ remainingFiles = [r \in Runs |-> <<>>]
  /\ currentSize = [r \in Runs |-> 0]
  /\ result = [r \in Runs |-> EmptyResult]
  /\ attempts = [r \in Runs |-> <<>>]
  /\ scanned = [r \in Runs |-> NotScanned]
  /\ stats = NoStats
  /\ created = {}

\* ---- runCleanup ------------------------------------------------------------
\* lines 168-184: build the result, scan, return at once on an empty
\* inventory, else read the clock and enter the TTL loop. runCleanup has no
\* handler of its own: an error that a catch lets through ends the call.
Scan(r) ==
  /\ pc[r] = "idle"
  /\ \E badDirs \in SUBSET dirs, badStat \in SUBSET onDisk, order \in ListingOrders :
       /\ Cardinality(badDirs) + Cardinality(badStat) + ScanFaults <= MaxScanFaults
       /\ LET inv == getAllFiles("root", dirs, onDisk, meta, badDirs, badStat, order)
              escaped == \/ ("root" \notin dirs \/ badDirs # {}) /\ ~CatchesScan("readdir")
                         \/ badStat # {} /\ ~CatchesScan("stat")
          IN /\ files' = [files EXCEPT ![r] = inv]
             /\ pc' = [pc EXCEPT ![r] = IF escaped THEN "threw"
                                        ELSE IF Len(inv) = 0 THEN "done" ELSE "ttl"]
             /\ now' = [now EXCEPT ![r] = IF Len(inv) = 0 THEN now[r] ELSE clock]
             /\ scanned' = [scanned EXCEPT ![r] =
                  [dirs |-> dirs, onDisk |-> onDisk, badDirs |-> badDirs,
                   badStat |-> badStat, clock |-> clock]]
  /\ result' = [result EXCEPT ![r] = EmptyResult]
  /\ remainingFiles' = [remainingFiles EXCEPT ![r] = <<>>]
  /\ idx' = [idx EXCEPT ![r] = 1]
  /\ UNCHANGED <<dirs, onDisk, meta, clock, otherRemoved, config, currentSize,
                 attempts, stats,
                 created>>

\* a TTL pass that hands a file it failed to delete on to the LRU pass
TtlDeleteRetryLater(r) ==
  /\ pc[r] = "ttl"
  /\ idx[r] <= Len(files[r])
  /\ LET file == files[r][idx[r]]
     IN /\ Expired(file, now[r])
        /\ \E deleted \in safeDelete(file.path) :
             LET escaped == ~deleted /\ ~CatchesUnlink(UnlinkError(file.path))
             IN /\ onDisk' = IF deleted THEN onDisk \ {file.path} ELSE onDisk
                /\ result' = [result EXCEPT ![r] =
                     IF escaped THEN @ ELSE RecordExpired(@, file, deleted)]
                /\ pc' = [pc EXCEPT ![r] = IF escaped THEN "threw" ELSE @]
                /\ remainingFiles' = [remainingFiles EXCEPT ![r] =
                     IF deleted THEN @ ELSE Append(@, file)]
                /\ attempts' = [attempts EXCEPT ![r] =
                     Append(@, [phase |-> "expired", path |-> file.path,
                                ok |-> deleted, present |-> file.path \in onDisk])]
  /\ idx' = [idx EXCEPT ![r] = @ + 1]
  /\ UNCHANGED <<dirs, meta, clock, otherRemoved, config, files, now,
                 currentSize, scanned, stats, created>>

\* lines 187-199: an iteration of the TTL loop on an expired file
TtlDelete(r) ==
  /\ pc[r] = "ttl"
  /\ idx[r] <= Len(files[r])
  /\ LET file == files[r][idx[r]]
     IN /\ Expired(file, now[r])
        /\ \E deleted \in safeDelete(file.path) :
             LET escaped == ~deleted /\ ~CatchesUnlink(UnlinkError(file.path))
             IN /\ onDisk' = IF deleted THEN onDisk \ {file.path} ELSE onDisk
                /\ result' = [result EXCEPT ![r] =
                     IF escaped THEN @ ELSE RecordExpired(@, file, deleted)]
                /\ pc' = [pc EXCEPT ![r] = IF escaped THEN "threw" ELSE @]
                /\ attempts' = [attempts EXCEPT ![r] =
                     Append(@, [phase |-> "expired", path |-> file.path,
                                ok |-> deleted, present |-> file.path \in onDisk])]
  /\ idx' = [idx EXCEPT ![r] = @ + 1]
  /\ UNCHANGED <<dirs, meta, clock, otherRemoved, config, files, now,
                 remainingFiles, currentSize, scanned, stats, created>>

\* lines 187-190, 200-202: an iteration of the TTL loop on a fresh file
TtlKeep(r) ==
  /\ pc[r] = "ttl"
  /\ idx[r] <= Len(files[r])
  /\ LET file == files[r][idx[r]]
     IN /\ ~Expired(file, now[r])
        /\ remainingFiles' = [remainingFiles EXCEPT ![r] = Append(@, file)]
  /\ idx' = [idx EXCEPT ![r] = @ + 1]
  /\ UNCHANGED <<dirs, onDisk, meta, clock, otherRemoved, config, pc, files, now,
                 currentSize, result, attempts, scanned, stats,
                 created>>

\* lines 230-233: the empty-directory sweep and the return
Finish(r) ==
  /\ dirs' = cleanEmptyDirs("root", "root", dirs, onDisk)
  /\ pc' = [pc EXCEPT ![r] = "done"]

\* lines 205-210: the size check after the TTL loop
SizeCheck(r) ==
  /\ pc[r] = "ttl"
  /\ idx[r] > Len(files[r])
  /\ LET total == SumSize(remainingFiles[r])
     IN /\ currentSize' = [currentSize EXCEPT ![r] = total]
        /\ IF OverLimit(total)
           THEN /\ remainingFiles' = [remainingFiles EXCEPT ![r] = SortByAccessTime(@)]
                /\ idx' = [idx EXCEPT ![r] = 1]
                /\ pc' = [pc EXCEPT ![r] = "lru"]
                /\ UNCHANGED dirs
           ELSE /\ Finish(r)
                /\ UNCHANGED <<remainingFiles, idx>>
  /\ UNCHANGED <<onDisk, meta, clock, otherRemoved, config, files, now, result,
                 attempts, scanned, stats,
                 created>>

\* lines 213-227: an iteration of the LRU loop that reaches safeDelete
LruDelete(r) ==
  /\ pc[r] = "lru"
  /\ idx[r] <= Len(remainingFiles[r])
  /\ OverLimit(currentSize[r])
  /\ LET file == remainingFiles[r][idx[r]]
     IN \E deleted \in safeDelete(file.path) :
          LET escaped == ~deleted /\ ~CatchesUnlink(UnlinkError(file.path))
          IN /\ onDisk' = IF deleted THEN onDisk \ {file.path} ELSE onDisk
             /\ result' = [result EXCEPT ![r] =
                  IF escaped THEN @ ELSE RecordLru(@, file, deleted)]
             /\ currentSize' = [currentSize EXCEPT ![r] = Decrement(@, file, deleted)]
             /\ pc' = [pc EXCEPT ![r] = IF escaped THEN "threw" ELSE @]
             /\ attempts' = [attempts EXCEPT ![r] =
                  Append(@, [phase |-> "LRU", path |-> file.path,
                             ok |-> deleted, present |-> file.path \in onDisk])]
  /\ idx' = [idx EXCEPT ![r] = @ + 1]
  /\ UNCHANGED <<dirs, meta, clock, otherRemoved, config, files, now,
                 remainingFiles, scanned, stats, created>>

\* lines 213-216, 228-233: the LRU loop ends (break, or no file left)
LruEnd(r) ==
  /\ pc[r] = "lru"
  /\ idx[r] > Len(remainingFiles[r]) \/ ~OverLimit(currentSize[r])
  /\ Finish(r)
  /\ UNCHANGED <<onDisk, meta, clock, otherRemoved, config, files, now, idx,
                 remainingFiles, currentSize, result, attempts, scanned, stats,
                 created>>

\* ---- getCacheStats ----------------------------------------------------------
\* line 280: Math.round((totalSizeBytes / (1024 * 1024 * 1024)) * 100) / 100,
\* kept as a whole number of hundredths of a gigabyte
SizeGbHundredths(bytes) == (bytes * 100 + 536870912) \div 1073741824

RECURSIVE OldestFrom(_, _, _)
\* lines 268-271: the first file with the least modTime
OldestFrom(inv, k, oldest) ==
  IF k > Len(inv) THEN oldest
  ELSE OldestFrom(inv, k + 1,
                  IF inv[k].modTime < oldest.modTime THEN inv[k] ELSE oldest)

RECURSIVE NewestFrom(_, _, _)
\* lines 268, 272-274: the first file with the greatest modTime
NewestFrom(inv, k, newest) ==
  IF k > Len(inv) THEN newest
  ELSE NewestFrom(inv, k + 1,
                  IF inv[k].modTime > newest.modTime THEN inv[k] ELSE newest)

\* statistics whose byte total is taken back from the rounded gigabytes
CacheStatsFromGb(inv, nowMs) ==
  IF Len(inv) = 0
  THEN [totalFiles |-> 0, totalSizeBytes |-> 0, totalSizeGb |-> 0,
        oldestFile |-> {}, newestFile |-> {}]
  ELSE LET oldest == OldestFrom(inv, 1, inv[1])
           newest == NewestFrom(inv, 1, inv[1])
       IN [totalFiles |-> Len(inv),
           totalSizeBytes |-> (SizeGbHundredths(SumSize(inv)) * 1073741824) \div 100,
           totalSizeGb |-> SizeGbHundredths(SumSize(inv)),
           oldestFile |-> {[path |-> oldest.path, age |-> nowMs - oldest.modTime]},
           newestFile |-> {[path |-> newest.path, age |-> nowMs - newest.modTime]}]

\* lines 252-289: the value getCacheStats returns for an inventory; null is
\* the empty set and a file record a set of one record
CacheStats(inv, nowMs) ==
  IF Len(inv) = 0
  THEN [totalFiles |-> 0, totalSizeBytes |-> 0, totalSizeGb |-> 0,
        oldestFile |-> {}, newestFile |-> {}]
  ELSE LET totalSizeBytes == SumSize(inv)
           oldest == OldestFrom(inv, 1, inv[1])
           newest == NewestFrom(inv, 1, inv[1])
       IN [totalFiles |-> Len(inv),
           totalSizeBytes |-> totalSizeBytes,
           totalSizeGb |-> SizeGbHundredths(totalSizeBytes),
           oldestFile |-> {[path |-> oldest.path, age |-> nowMs - oldest.modTime]},
           newestFile |-> {[path |-> newest.path, age |-> nowMs - newest.modTime]}]

\* lines 242-290: a getCacheStats call; it scans and computes, and calls
\* nothing that writes
getCacheStats ==
  /\ \E badDirs \in SUBSET dirs, badStat \in SUBSET onDisk, order \in ListingOrders :
       /\ Cardinality(badDirs) + Cardinality(badStat) <= MaxScanFaults
       /\ LET inv == getAllFiles("root", dirs, onDisk, meta, badDirs, badStat, order)
          IN stats' = [called |-> TRUE,
                       value |-> CacheStats(inv, clock),
                       scan |-> [dirs |-> dirs, onDisk |-> onDisk, badDirs |-> badDirs,
                                 badStat |-> badStat, clock |-> clock]]
  /\ UNCHANGED <<dirs, onDisk, meta, clock, otherRemoved, config, pc, files, now,
                 idx, remainingFiles, currentSize, result, attempts, scanned,
                 created>>

\* ---- the environment -------------------------------------------------------
\* another process removes a file while a run is between its scan and its
\* last deletion attempt
OtherUnlink ==
  /\ \E r \in Runs : pc[r] \in {"ttl", "lru"}
  /\ Cardinality(otherRemoved) < MaxOther
  /\ \E f \in onDisk :
       /\ onDisk' = onDisk \ {f}
       /\ otherRemoved' = otherRemoved \cup {f}
  /\ UNCHANGED <<dirs, meta, clock, config, pc, files, now, idx, remainingFiles,
                 currentSize, result, attempts, scanned, stats,
                 created>>

\* a concurrent writer adds a file under the cache root after a scan; the
\* new file is stamped with the current time. Its path may be one that an
\* earlier file, since removed, had when the scan ran.
OtherCreate ==
  /\ \E r \in Runs : pc[r] \in {"ttl", "lru"}
  /\ Cardinality(created) < MaxCreated
  /\ \E f \in FileIds \ (onDisk \cup created), size \in 0..MaxSize :
       /\ DirOf(f) \in dirs
       /\ onDisk' = onDisk \cup {f}
       /\ meta' = [meta EXCEPT ![f] =
            [size |-> size, accessTime |-> clock, modTime |-> clock]]
       /\ created' = created \cup {f}
  /\ UNCHANGED <<dirs, clock, otherRemoved, config, pc, files, now, idx,
                 remainingFiles, currentSize, result, attempts, scanned, stats>>

\* time passes between the return of the first call and the second call
Tick ==
  /\ pc["first"] = "done" /\ pc["second"] = "idle"
  /\ clock < MaxTime + MaxTicks
  /\ clock' = clock + 1
  /\ UNCHANGED <<dirs, onDisk, meta, otherRemoved, config, pc, files, now, idx,
                 remainingFiles, currentSize, result, attempts, scanned, stats,
                 created>>

\* one runCleanup call, step by step
runCleanup(r) ==
  \/ Scan(r)
  \/ TtlDelete(r)
  \/ TtlKeep(r)
  \/ SizeCheck(r)
  \/ LruDelete(r)
  \/ LruEnd(r)

\* a single call with another process removing files under it
Next ==
  \/ runCleanup("first")
  \/ OtherUnlink

Spec == Init /\ [][Next]_vars

\* the event loop resumes a call whose awaited operation has settled
SpecLive == Spec /\ WF_vars(runCleanup("first"))

\* a second call that starts after the first one returned
NextTwice ==
  \/ runCleanup("first")
  \/ pc["first"] = "done" /\ runCleanup("second")
  \/ Tick

SpecTwice == Init /\ [][NextTwice]_vars

\* two calls left alone with a healthy cache: every readdir and stat
\* succeeds, and an unlink fails only because the file is gone (ENOENT), the
\* other call having removed it first
FailsOnlyWhenGone ==
  \A r \in Runs :
    /\ scanned[r].badDirs = {} /\ scanned[r].badStat = {}
    /\ \A a \in 1..Len(attempts[r]) : attempts[r][a].present => attempts[r][a].ok

\* a step of one of two calls in flight at once
OverlapStep(r) == runCleanup(r) /\ FailsOnlyWhenGone'

\* two calls in flight at once: the event loop interleaves them at every
\* await, and each starts at any time
NextOverlap ==
  \/ OverlapStep("first")
  \/ OverlapStep("second")

\* the event loop resumes every call whose awaited operation has settled
SpecOverlap ==
  /\ Init
  /\ [][NextOverlap]_vars
  /\ WF_vars(OverlapStep("first"))
  /\ WF_vars(OverlapStep("second"))

\* a single call with other processes removing and adding files under it
NextWriter ==
  \/ runCleanup("first")
  \/ OtherUnlink
  \/ OtherCreate

SpecWriter == Init /\ [][NextWriter]_vars /\ WF_vars(runCleanup("first"))

\* the read-only statistics path, called on any cache
NextStats == getCacheStats

SpecStats == Init /\ [][NextStats]_vars

\* ---- properties -------------------------------------------------------------
TypeOK ==
  /\ dirs \subseteq Dirs
  /\ onDisk \subseteq FileIds
  /\ pc \in [Runs -> {"idle", "ttl", "lru", "done", "threw"}]

InSeq(x, seq) == \E k \in 1..Len(seq) : seq[k] = x

\* positions of the deletion attempts of a run on a path in a phase
AttemptsOn(r, phase, path) ==
  {k \in 1..Len(attempts[r]) :
     attempts[r][k].phase = phase /\ attempts[r][k].path = path}

\* positions of the error entries of a run for a path in a phase
ErrorsOn(r, phase, path) ==
  {k \in 1..Len(result[r].errors) :
     result[r].errors[k] = [phase |-> phase, path |-> path]}

RECURSIVE SizeOnDisk(_)
\* total size of the files of an inventory that still exist
SizeOnDisk(seq) ==
  IF seq = <<>> THEN 0
  ELSE (IF Head(seq).path \in onDisk THEN Head(seq).size ELSE 0)
       + SizeOnDisk(Tail(seq))

\* C1 as stated: when runCleanup has returned, every file of the inventory
\* with now - modTime > ttlMs is gone from the filesystem and listed in
\* expiredFiles, whatever the unlink attempts did; every other file is a
\* Phase-2 candidate that the TTL pass did not delete.
C1_ExpiredAlwaysDeleted ==
  pc["first"] = "done" =>
    \A k \in 1..Len(files["first"]) :
      LET file == files["first"][k]
      IN IF now["first"] - file.modTime > config.ttlMs
         THEN /\ file.path \notin onDisk
              /\ InSeq(file.path, result["first"].expiredFiles)
         ELSE /\ ~InSeq(file.path, result["first"].expiredFiles)
              /\ InSeq(file, remainingFiles["first"])

\* C1 amended: every file of the inventory with now - modTime > ttlMs gets
\* exactly one unlink attempt in the TTL pass; if the attempt succeeds the
\* file is gone and listed in expiredFiles, if it fails the file is not
\* listed in expiredFiles and has an "expired" error entry. A file with
\* now - modTime <= ttlMs gets no TTL attempt and is a Phase-2 candidate.
C1_ExpiredAttempted ==
  pc["first"] = "done" =>
    \A k \in 1..Len(files["first"]) :
      LET file == files["first"][k]
          tries == AttemptsOn("first", "expired", file.path)
      IN IF now["first"] - file.modTime > config.ttlMs
         THEN /\ Cardinality(tries) = 1
              /\ ~InSeq(file, remainingFiles["first"])
              /\ \A a \in tries :
                   IF attempts["first"][a].ok
                   THEN /\ file.path \notin onDisk
                        /\ InSeq(file.path, result["first"].expiredFiles)
                        /\ ErrorsOn("first", "expired", file.path) = {}
                   ELSE /\ ~InSeq(file.path, result["first"].expiredFiles)
                        /\ Cardinality(ErrorsOn("first", "expired", file.path)) = 1
         ELSE /\ tries = {}
              /\ ~InSeq(file.path, result["first"].expiredFiles)
              /\ InSeq(file, remainingFiles["first"])

\* C1 witness: a finished run in which one expired file was deleted and the
\* unlink of another expired file failed
C1_Witness ==
  /\ pc["first"] = "done"
  /\ \E a, b \in 1..Len(attempts["first"]) :
       /\ attempts["first"][a].phase = "expired" /\ attempts["first"][a].ok
       /\ attempts["first"][b].phase = "expired" /\ ~attempts["first"][b].ok
       /\ attempts["first"][b].path \in onDisk

\* C2 as stated: when runCleanup has returned, the Phase-1 survivors that
\* still exist total at most maxSizeBytes, or every Phase-1 survivor has been
\* deleted, whatever unlink attempts of the LRU pass failed.
C2_UnderLimitOrAllDeleted ==
  pc["first"] = "done" =>
    \/ SizeOnDisk(remainingFiles["first"]) <= config.maxSizeBytes
    \/ \A k \in 1..Len(remainingFiles["first"]) :
         remainingFiles["first"][k].path \notin onDisk

\* C2 amended: when runCleanup has returned, the Phase-1 survivors that still
\* exist total at most maxSizeBytes, or the LRU pass has attempted to delete
\* every Phase-1 survivor (each one is deleted or has an LRU error entry).
C2_UnderLimitOrAllAttempted ==
  pc["first"] = "done" =>
    \/ SizeOnDisk(remainingFiles["first"]) <= config.maxSizeBytes
    \/ \A k \in 1..Len(remainingFiles["first"]) :
         LET path == remainingFiles["first"][k].path
         IN /\ Cardinality(AttemptsOn("first", "LRU", path)) = 1
            /\ \/ InSeq(path, result["first"].lruFiles) /\ path \notin onDisk
               \/ ErrorsOn("first", "LRU", path) # {}

\* C2 witness: a finished run whose LRU pass ran out of candidates with the
\* existing survivors still over the limit, after a failed unlink
C2_Witness ==
  /\ pc["first"] = "done"
  /\ SizeOnDisk(remainingFiles["first"]) > config.maxSizeBytes
  /\ \E a \in 1..Len(attempts["first"]) :
       attempts["first"][a].phase = "LRU" /\ ~attempts["first"][a].ok
  /\ result["first"].lruFiles # <<>>

\* C3: in every state of a run, lruFiles is in non-decreasing accessTime
\* order, and every Phase-2 candidate whose accessTime is strictly smaller
\* than that of a path in lruFiles has had its LRU deletion attempt.
C3_LruOrder ==
  LET lru == result["first"].lruFiles
  IN /\ \A i, j \in 1..Len(lru) :
          i < j => meta[lru[i]].accessTime <= meta[lru[j]].accessTime
     /\ \A i \in 1..Len(lru) : \A k \in 1..Len(remainingFiles["first"]) :
          LET file == remainingFiles["first"][k]
          IN file.accessTime < meta[lru[i]].accessTime =>
               AttemptsOn("first", "LRU", file.path) # {}

\* C3 witness: two LRU deletions in strictly increasing accessTime order, of
\* files that the scan listed in the opposite order
C3_Witness ==
  LET lru == result["first"].lruFiles
  IN /\ Len(lru) = 2
     /\ meta[lru[1]].accessTime < meta[lru[2]].accessTime
     /\ \E i, j \in 1..Len(files["first"]) :
          i < j /\ files["first"][i].path = lru[2] /\ files["first"][j].path = lru[1]

EmptyLists(res) ==
  /\ res.filesDeleted = 0
  /\ res.bytesFreed = 0
  /\ res.expiredFiles = <<>>
  /\ res.lruFiles = <<>>

Deleted(r) ==
  {p \in FileIds : InSeq(p, result[r].expiredFiles) \/ InSeq(p, result[r].lruFiles)}

\* C5: when runCleanup has returned, no directory other than the cache root
\* that lost a file in this run is left behind empty.
C5_EmptiedDirsRemoved ==
  pc["first"] = "done" =>
    \A d \in dirs \ {"root"} :
      (\E p \in Deleted("first") : DirOf(p) = d)
        => (FilesIn(d, onDisk) # {} \/ SubDirs(d, dirs) # {})

\* C6: no step of a run removes the cache root: once the configured
\* cacheDirectory exists it exists in every later state.
C6_RootNeverRemoved == [][("root" \in dirs) => ("root" \in dirs')]_vars

\* C6 witness: a finished run that deleted every file, leaving the cache
\* root empty and still present
C6_Witness ==
  /\ pc["first"] = "done"
  /\ result["first"].filesDeleted >= 1
  /\ onDisk = {}
  /\ dirs = {"root"}

\* the failed deletion attempts of a run, in order
FailedAttempts(r) ==
  LET NotOk(a) == ~a.ok IN SelectSeq(attempts[r], NotOk)

\* position of a path in an inventory, 0 if absent
PosIn(seq, path) ==
  IF \E k \in 1..Len(seq) : seq[k].path = path
  THEN CHOOSE k \in 1..Len(seq) : seq[k].path = path
  ELSE 0

\* C7: in every state the errors list has exactly one entry per failed
\* unlink attempt, in order, naming the path and the phase of the attempt;
\* and when the run has returned, a failure has not cut the plan short:
\* every expired file of the inventory was attempted, the LRU pass started
\* if the survivors were over the limit, and the candidate after a failed
\* LRU attempt was attempted too.
C7_FailuresRecordedPlanContinues ==
  LET failed == FailedAttempts("first")
      errs == result["first"].errors
      rem == remainingFiles["first"]
  IN /\ Len(errs) = Len(failed)
     /\ \A k \in 1..Len(errs) :
          errs[k] = [phase |-> failed[k].phase, path |-> failed[k].path]
     /\ pc["first"] = "done" =>
          /\ \A k \in 1..Len(files["first"]) :
               now["first"] - files["first"][k].modTime > config.ttlMs
                 => AttemptsOn("first", "expired", files["first"][k].path) # {}
          /\ SumSize(rem) > config.maxSizeBytes
               => AttemptsOn("first", "LRU", rem[1].path) # {}
          /\ \A a \in 1..Len(attempts["first"]) :
               LET k == PosIn(rem, attempts["first"][a].path)
               IN (attempts["first"][a].phase = "LRU" /\ ~attempts["first"][a].ok
                   /\ k < Len(rem))
                    => AttemptsOn("first", "LRU", rem[k + 1].path) # {}

\* C7 witness: a finished run whose first LRU deletion failed and whose next
\* candidate was then attempted and deleted
C7_Witness ==
  /\ pc["first"] = "done"
  /\ Len(attempts["first"]) = 2
  /\ attempts["first"][1].phase = "LRU" /\ ~attempts["first"][1].ok
  /\ attempts["first"][2].phase = "LRU" /\ attempts["first"][2].ok
  /\ Len(result["first"].errors) = 1

\* C8 as stated: a file of the inventory that another process removed
\* before its deletion attempt gets no entry in the errors list.
C8_MissingFileSilent ==
  \A a \in 1..Len(attempts["first"]) :
    ~attempts["first"][a].present =>
      \A k \in 1..Len(result["first"].errors) :
        result["first"].errors[k].path # attempts["first"][a].path

\* C8 amended: a file of the inventory that another process removed before
\* its deletion attempt is a non-fatal failure: the attempt adds exactly one
\* entry to errors for that file and its phase, the file is not counted in
\* expiredFiles or lruFiles, and the attempts planned after it still happen.
C8_MissingFileRecorded ==
  \A a \in 1..Len(attempts["first"]) :
    LET att == attempts["first"][a]
    IN ~att.present =>
         /\ ~att.ok
         /\ Cardinality(ErrorsOn("first", att.phase, att.path)) = 1
         /\ att.path \notin Deleted("first")
         /\ pc["first"] = "done" =>
              /\ \A k \in 1..Len(files["first"]) :
                   now["first"] - files["first"][k].modTime > config.ttlMs
                     => AttemptsOn("first", "expired", files["first"][k].path) # {}
              /\ LET k == PosIn(remainingFiles["first"], att.path)
                 IN (att.phase = "LRU" /\ k < Len(remainingFiles["first"]))
                      => AttemptsOn("first", "LRU",
                                    remainingFiles["first"][k + 1].path) # {}

\* C8 witness: a finished run that tried to delete a file another process
\* had removed, and deleted another file after that attempt
C8_Witness ==
  /\ pc["first"] = "done"
  /\ \E a, b \in 1..Len(attempts["first"]) :
       /\ a < b
       /\ ~attempts["first"][a].present
       /\ attempts["first"][a].path \in otherRemoved
       /\ attempts["first"][b].ok

AllAttemptsOk(r) == \A a \in 1..Len(attempts[r]) : attempts[r][a].ok

\* C9 as stated: with maxSizeBytes = 0 and no failing unlink, no Phase-1
\* survivor is left on disk when runCleanup has returned, files of size 0
\* included.
C9_ZeroLimitDeletesAll ==
  (pc["first"] = "done" /\ config.maxSizeBytes = 0 /\ AllAttemptsOk("first"))
    => \A k \in 1..Len(remainingFiles["first"]) :
         remainingFiles["first"][k].path \notin onDisk

\* C9 amended: with maxSizeBytes = 0 and no failing unlink, every Phase-1
\* survivor of size > 0 has been deleted by the LRU pass when runCleanup has
\* returned; a survivor of size 0 may be left on disk.
C9_ZeroLimitDeletesNonEmpty ==
  (pc["first"] = "done" /\ config.maxSizeBytes = 0 /\ AllAttemptsOk("first"))
    => \A k \in 1..Len(remainingFiles["first"]) :
         LET file == remainingFiles["first"][k]
         IN file.size > 0 =>
              /\ InSeq(file.path, result["first"].lruFiles)
              /\ file.path \notin onDisk

\* C9 witness: a finished run with maxSizeBytes = 0 that deleted a survivor
\* of size > 0 in the LRU pass and left a survivor of size 0 on disk
C9_Witness ==
  /\ pc["first"] = "done"
  /\ config.maxSizeBytes = 0
  /\ AllAttemptsOk("first")
  /\ \E i, j \in 1..Len(remainingFiles["first"]) :
       /\ remainingFiles["first"][i].size > 0
       /\ InSeq(remainingFiles["first"][i].path, result["first"].lruFiles)
       /\ remainingFiles["first"][j].size = 0
       /\ remainingFiles["first"][j].path \in onDisk

\* C10: a runCleanup whose cache root is missing or unreadable, or holds no
\* file, returns the empty report (no deletion, no error) and leaves the
\* directories and files as the scan met them.
C10_EmptyCacheNoOp ==
  (/\ pc["first"] = "done"
   /\ \/ "root" \notin scanned["first"].dirs
      \/ "root" \in scanned["first"].badDirs
      \/ scanned["first"].onDisk = {})
    => /\ result["first"] = EmptyResult
       /\ attempts["first"] = <<>>
       /\ dirs = scanned["first"].dirs
       /\ onDisk = scanned["first"].onDisk

\* C10 witness: a returned run whose readdir of the cache root failed while
\* the root held a file older than the TTL
C10_Witness ==
  /\ pc["first"] = "done"
  /\ "root" \in scanned["first"].badDirs
  /\ \E f \in onDisk :
       DirOf(f) = "root" /\ scanned["first"].clock - meta[f].modTime > config.ttlMs
  /\ result["first"] = EmptyResult

\* total size of the first n files of an inventory
PrefixSize(seq, n) == SumSize(SubSeq(seq, 1, n))

\* the least number of leading files whose removal brings the total of an
\* inventory to at most the limit (all of them if no prefix does)
ShortestPrefix(seq) ==
  LET fits == {n \in 0..Len(seq) :
                 SumSize(seq) - PrefixSize(seq, n) <= config.maxSizeBytes}
  IN IF fits = {} THEN Len(seq)
     ELSE CHOOSE n \in fits : \A m \in fits : n <= m

\* total scan-time size of a sequence of paths of a run's inventory
RECURSIVE ScanSize(_, _)
ScanSize(r, paths) ==
  IF paths = <<>> THEN 0
  ELSE files[r][PosIn(files[r], Head(paths))].size + ScanSize(r, Tail(paths))

\* C11: once the size check is done the running total is the survivors' total
\* minus the sizes of the LRU deletions that succeeded; when runCleanup has
\* returned, the LRU pass attempted nothing if the survivors' total was
\* within the limit, and otherwise, with no failed unlink, lruFiles is the
\* shortest prefix of the survivors in ascending accessTime order whose
\* removal brings the total to at most maxSizeBytes.
C11_ShortestLruPrefix ==
  LET rem == remainingFiles["first"]
      lru == result["first"].lruFiles
  IN /\ pc["first"] \in {"lru", "done"} =>
          currentSize["first"] = SumSize(rem) - ScanSize("first", lru)
     /\ pc["first"] = "done" =>
          /\ SumSize(rem) <= config.maxSizeBytes =>
               /\ lru = <<>>
               /\ \A a \in 1..Len(attempts["first"]) :
                    attempts["first"][a].phase # "LRU"
          /\ (SumSize(rem) > config.maxSizeBytes /\ AllAttemptsOk("first")) =>
               /\ \A i, j \in 1..Len(rem) :
                    i < j => rem[i].accessTime <= rem[j].accessTime
               /\ Len(lru) = ShortestPrefix(rem)
               /\ \A k \in 1..Len(lru) : lru[k] = rem[k].path

\* C11 witness: two survivors of one byte each with a limit of one byte; the
\* run deleted only the least recently accessed one, which the scan had
\* listed last
C11_Witness ==
  /\ pc["first"] = "done"
  /\ Len(remainingFiles["first"]) = 2
  /\ SumSize(remainingFiles["first"]) = 2
  /\ config.maxSizeBytes = 1
  /\ Len(result["first"].lruFiles) = 1
  /\ files["first"][2].path = result["first"].lruFiles[1]
  /\ files["first"][2].accessTime < files["first"][1].accessTime

\* C12: in every state of a run filesDeleted = |expiredFiles| + |lruFiles|,
\* bytesFreed is the sum of the scan-time sizes of the paths in the two
\* lists, and a path is in expiredFiles (lruFiles) exactly when an unlink of
\* the TTL pass (LRU pass) of this run on it succeeded, which removed it.
C12_ReportConsistent ==
  LET res == result["first"]
  IN /\ res.filesDeleted = Len(res.expiredFiles) + Len(res.lruFiles)
     /\ res.bytesFreed
          = ScanSize("first", res.expiredFiles) + ScanSize("first", res.lruFiles)
     /\ \A p \in FileIds :
          /\ InSeq(p, res.expiredFiles) <=>
               \E a \in AttemptsOn("first", "expired", p) : attempts["first"][a].ok
          /\ InSeq(p, res.lruFiles) <=>
               \E a \in AttemptsOn("first", "LRU", p) : attempts["first"][a].ok
          /\ p \in Deleted("first") =>
               p \in scanned["first"].onDisk /\ p \notin onDisk

\* C12 witness: a run between two file operations, after the TTL pass
\* deleted a file of one byte and with the LRU loop still to act
C12_Witness ==
  /\ pc["first"] = "lru"
  /\ idx["first"] <= Len(remainingFiles["first"])
  /\ result["first"].filesDeleted = 1
  /\ result["first"].bytesFreed = 1
  /\ Len(result["first"].expiredFiles) = 1

\* C13: a runCleanup call never ends by an exception and always comes to
\* return its report, whatever readdir, stat and unlink calls fail.
C13_ReturnsNeverThrows ==
  /\ [](pc["first"] # "threw")
  /\ <>(pc["first"] = "done")

\* C13 witness: a call that has returned after a failed stat or readdir in
\* its scan and a failed unlink on an existing file
C13_Witness ==
  /\ pc["first"] = "done"
  /\ scanned["first"].badDirs \cup scanned["first"].badStat # {}
  /\ \E a \in 1..Len(attempts["first"]) :
       ~attempts["first"][a].ok /\ attempts["first"][a].present

\* the directories on the way from the cache root down to a directory
RECURSIVE PathDirs(_)
PathDirs(dir) ==
  IF dir \notin Dirs THEN {} ELSE {dir} \cup PathDirs(Parent(dir))

\* the files a scan can reach and stat: those it met on disk whose stat did
\* not fail and none of whose directories failed to list
Visible(sc) ==
  {f \in sc.onDisk : f \notin sc.badStat /\ PathDirs(DirOf(f)) \cap sc.badDirs = {}}

\* C14: once the scan of a run is done, its inventory holds exactly the
\* files whose stat and whose directories' readdir succeeded, each once and
\* with the size and times stat reports; a file the scan skipped is never
\* the target of a deletion attempt of the run, is in none of its lists and
\* stays on disk unless another process removes it.
C14_ScanSkipsUnreadable ==
  pc["first"] # "idle" =>
    LET inv == files["first"]
        sc == scanned["first"]
    IN /\ {inv[k].path : k \in 1..Len(inv)} = Visible(sc)
       /\ Len(inv) = Cardinality(Visible(sc))
       /\ \A k \in 1..Len(inv) :
            /\ inv[k].size = meta[inv[k].path].size
            /\ inv[k].accessTime = meta[inv[k].path].accessTime
            /\ inv[k].modTime = meta[inv[k].path].modTime
       /\ \A f \in sc.onDisk \ Visible(sc) :
            /\ \A a \in 1..Len(attempts["first"]) : attempts["first"][a].path # f
            /\ \A k \in 1..Len(result["first"].errors) :
                 result["first"].errors[k].path # f
            /\ f \notin Deleted("first")
            /\ f \in onDisk \/ f \in otherRemoved

\* C14 witness: a returned run whose readdir of d1 failed, so that the file
\* under d1/d2, older than the TTL, was skipped and is still on disk, while
\* the file in the root was scanned and deleted
C14_Witness ==
  /\ pc["first"] = "done"
  /\ scanned["first"].badDirs = {"d1"}
  /\ 1 \in onDisk
  /\ scanned["first"].clock - meta[1].modTime > config.ttlMs
  /\ 2 \in Deleted("first")

\* the stat calls of a scan that failed: the file was listed, its stat threw
FailedStats(sc) ==
  {f \in sc.badStat \cap sc.onDisk : PathDirs(DirOf(f)) \cap sc.badDirs = {}}

\* the readdir calls of a scan that failed: the directory was reached
FailedReaddirs(sc) ==
  {d \in sc.badDirs : PathDirs(Parent(d)) \cap sc.badDirs = {}}

\* C15 as stated: when runCleanup has returned, each failed stat, readdir
\* and unlink of the call has its entry in errors: the list has one entry
\* per failure and names every file whose stat failed.
C15_EveryFailureRecorded ==
  pc["first"] = "done" =>
    /\ Len(result["first"].errors)
         = Len(FailedAttempts("first"))
           + Cardinality(FailedStats(scanned["first"]))
           + Cardinality(FailedReaddirs(scanned["first"]))
    /\ \A f \in FailedStats(scanned["first"]) :
         \E k \in 1..Len(result["first"].errors) : result["first"].errors[k].path = f

\* C15 amended: a failing unlink is recorded in errors with the path and the
\* phase and the run goes on; a failing stat or readdir of the scan is
\* skipped without any entry in errors: the errors list names exactly the
\* paths whose unlink failed, one entry per failed unlink.
C15_OnlyUnlinkFailuresRecorded ==
  /\ pc["first"] # "threw"
  /\ {result["first"].errors[k].path : k \in 1..Len(result["first"].errors)}
       = {attempts["first"][a].path :
            a \in {b \in 1..Len(attempts["first"]) : ~attempts["first"][b].ok}}
  /\ Len(result["first"].errors) = Len(FailedAttempts("first"))
  /\ \A f \in FailedStats(scanned["first"]) :
       \A k \in 1..Len(result["first"].errors) : result["first"].errors[k].path # f
  /\ (pc["first"] = "done" /\ attempts["first"] = <<>>)
       => result["first"].errors = <<>>

\* C15 witness: a returned run whose scan had a failing stat and whose TTL
\* pass had a failing unlink: errors has the one entry of the unlink
C15_Witness ==
  /\ pc["first"] = "done"
  /\ FailedStats(scanned["first"]) # {}
  /\ Len(result["first"].errors) = 1
  /\ result["first"].errors[1].phase = "expired"

RECURSIVE TotalSize(_)
\* total of the sizes stat reports for a set of files
TotalSize(S) ==
  IF S = {} THEN 0
  ELSE LET f == CHOOSE x \in S : TRUE
       IN meta[f].size + TotalSize(S \ {f})

\* C16: a getCacheStats call on a cache with no file to scan (missing,
\* unreadable or empty) returns totalFiles = 0, totalSizeBytes = 0 and null
\* for oldestFile and newestFile; otherwise totalFiles and totalSizeBytes are
\* the count and the byte sum of the scanned files and oldestFile and
\* newestFile are files of the inventory; the directories and files are as
\* the call met them.
C16_StatsTotals ==
  stats.called =>
    LET vis == Visible(stats.scan)
        v == stats.value
    IN /\ vis = {} =>
            /\ v.totalFiles = 0 /\ v.totalSizeBytes = 0
            /\ v.oldestFile = {} /\ v.newestFile = {}
       /\ vis # {} =>
            /\ v.totalFiles = Cardinality(vis)
            /\ v.totalSizeBytes = TotalSize(vis)
            /\ Cardinality(v.oldestFile) = 1 /\ Cardinality(v.newestFile) = 1
            /\ \A o \in v.oldestFile \cup v.newestFile : o.path \in vis
       /\ dirs = stats.scan.dirs
       /\ onDisk = stats.scan.onDisk

\* C16 witness: statistics of a cache of two files of one byte each, with
\* different modification times
C16_Witness ==
  /\ stats.called
  /\ stats.value.totalFiles = 2
  /\ stats.value.totalSizeBytes = 2
  /\ \E o \in stats.value.oldestFile : \E n \in stats.value.newestFile :
       o.path # n.path /\ o.age > n.age

\* C17: in every state of a run, no TTL deletion attempt comes after an LRU
\* deletion attempt, no path has two deletion attempts (so a file whose
\* expired deletion failed is not tried again by the LRU pass), and
\* expiredFiles and lruFiles are duplicate-free and share no path.
C17_PhasesInOrder ==
  LET att == attempts["first"]
      exp == result["first"].expiredFiles
      lru == result["first"].lruFiles
  IN /\ \A a, b \in 1..Len(att) :
          a < b => /\ ~(att[a].phase = "LRU" /\ att[b].phase = "expired")
                   /\ att[a].path # att[b].path
     /\ \A i, j \in 1..Len(exp) : i # j => exp[i] # exp[j]
     /\ \A i, j \in 1..Len(lru) : i # j => lru[i] # lru[j]
     /\ \A i \in 1..Len(exp) : \A j \in 1..Len(lru) : exp[i] # lru[j]

\* C17 witness: a returned run whose TTL pass failed to delete one file and
\* whose LRU pass then deleted the other file
C17_Witness ==
  /\ pc["first"] = "done"
  /\ Len(attempts["first"]) = 2
  /\ attempts["first"][1].phase = "expired" /\ ~attempts["first"][1].ok
  /\ attempts["first"][1].present
  /\ attempts["first"][2].phase = "LRU" /\ attempts["first"][2].ok

\* C18: when runCleanup has returned with an empty errors list after a scan
\* in which no stat or readdir failed, the files left under the cache root
\* total at most maxSizeBytes and none of them is older than ttlMs at the
\* clock value the run read.
C18_CacheBounded ==
  (/\ pc["first"] = "done"
   /\ result["first"].errors = <<>>
   /\ scanned["first"].badDirs = {} /\ scanned["first"].badStat = {})
    => /\ TotalSize(onDisk) <= config.maxSizeBytes
       /\ \A f \in onDisk :
            scanned["first"].clock - meta[f].modTime <= config.ttlMs

\* C18 witness: a returned run without any failure that deleted one file in
\* the LRU pass and left a file that fills the limit exactly
C18_Witness ==
  /\ pc["first"] = "done"
  /\ result["first"].errors = <<>>
  /\ scanned["first"].badDirs = {} /\ scanned["first"].badStat = {}
  /\ Len(result["first"].lruFiles) = 1
  /\ onDisk # {}
  /\ TotalSize(onDisk) = config.maxSizeBytes

\* the most steps a call can still take before it returns
StepsLeft(r) ==
  CASE pc[r] = "idle" -> 2 * NumFiles + 3
    [] pc[r] = "ttl"  -> (Len(files[r]) + 1 - idx[r]) + NumFiles + 2
    [] pc[r] = "lru"  -> (Len(remainingFiles[r]) + 1 - idx[r]) + 1
    [] OTHER          -> 0

\* C19: with two runCleanup calls interleaved at any await, no path is in
\* the expiredFiles or lruFiles of both reports, and once both have returned
\* the two bytesFreed add up to the total size of the files that have left
\* the disk. Both calls return their report: neither throws, a call that
\* has not returned can always take its next step, and every step brings
\* the call that takes it nearer to its return.
C19_OverlapConsistent ==
  /\ [](Deleted("first") \cap Deleted("second") = {})
  /\ []((pc["first"] = "done" /\ pc["second"] = "done") =>
          result["first"].bytesFreed + result["second"].bytesFreed
            = TotalSize((scanned["first"].onDisk \cup scanned["second"].onDisk)
                          \ onDisk))
  /\ [](\A r \in Runs : pc[r] # "threw")
  /\ [](\A r \in Runs : pc[r] # "done" => ENABLED OverlapStep(r))
  /\ [][/\ \A r \in Runs : StepsLeft(r)' <= StepsLeft(r)
        /\ \E r \in Runs : StepsLeft(r)' < StepsLeft(r)]_vars

\* C19 witness: both calls inventoried the same file and both have returned;
\* the first deleted it, the second found it gone and deleted another file
C19_Witness ==
  /\ pc["first"] = "done" /\ pc["second"] = "done"
  /\ \E a \in 1..Len(attempts["first"]), b \in 1..Len(attempts["second"]) :
       /\ attempts["first"][a].path = attempts["second"][b].path
       /\ attempts["first"][a].ok
       /\ ~attempts["second"][b].ok /\ ~attempts["second"][b].present
  /\ Deleted("second") # {}
  /\ result["first"].bytesFreed + result["second"].bytesFreed >= 2

\* the paths of a run's scan inventory
InventoryPaths(r) == {files[r][k].path : k \in 1..Len(files[r])}

\* the files of a run's inventory that its TTL pass keeps
Survivors(r) ==
  LET Fresh(file) == ~Expired(file, now[r]) IN SelectSeq(files[r], Fresh)

\* the step removes file f from the disk and is a step of the run
RunUnlinks(f) ==
  f \in onDisk /\ f \notin onDisk' /\ attempts' # attempts

\* C20 as stated: no step of the run unlinks a file that a concurrent writer
\* created after the run's scan.
C20_CreatedNeverUnlinked ==
  [][\A f \in created : ~RunUnlinks(f)]_vars

\* C20: every file a step of the run unlinks is at a path of the run's own
\* scan inventory, and the file the scan saw there was either expired or a
\* survivor reached by the LRU pass: the survivors were over the limit and
\* every survivor accessed earlier had been attempted before. So a file a
\* concurrent writer creates at a path outside the inventory is never
\* unlinked by the run, and every unlinked path lies under the cache root.
C20_OnlyInventoryPathsUnlinked ==
  [][\A f \in FileIds : RunUnlinks(f) =>
       /\ f \in InventoryPaths("first")
       /\ "root" \in PathDirs(DirOf(f))
       /\ LET file == files["first"][PosIn(files["first"], f)]
              surv == Survivors("first")
          IN \/ Expired(file, now["first"])
             \/ /\ SumSize(surv) > config.maxSizeBytes
                /\ \A k \in 1..Len(surv) :
                     surv[k].accessTime < file.accessTime
                       => \E a \in 1..Len(attempts["first"]) :
                            attempts["first"][a].path = surv[k].path]_vars

\* C20 witness: a returned run that deleted a file and left on disk a file
\* the writer created after the scan at a path outside the inventory
C20_Witness ==
  /\ pc["first"] = "done"
  /\ Deleted("first") # {}
  /\ \E f \in created \cap onDisk : f \notin InventoryPaths("first")
====
